---- MODULE Spec2Model ----
(***************************************************************************)
(* Connectivity microservice: the two event pipelines (citizen             *)
(* registration, document authentication) between the RabbitMQ broker, the *)
(* trace ledger and the external centralizer API.                          *)
(*                                                                         *)
(* One behaviour runs one pipeline (chosen in Init): its consumers share   *)
(* the pipeline's queue and the pipeline's trace table and nothing else.   *)
(* The synchronous lookup endpoint (GET citizens/<id>/exists/ behind the   *)
(* bearer-token decorator) is a process of its own: SpecLookup follows one *)
(* request through it.                                                     *)
(***************************************************************************)
EXTENDS Integers, Sequences, FiniteSets, TLC

---------------------------------------------------------------------------
(* Bounds of the model *)

\* messages the upstream publishers put on the pipeline's queue (copies of
\* one event included: delivery is at-least-once)
MaxPublish == 2

\* the count of nacks with requeue=True of one message id stops here
MaxRequeues == 3

---------------------------------------------------------------------------
(* Program constants *)

\* Retry(total=3): retries after the first attempt
RetryTotal == 3
\* a consumer that never calls basic_qos: the broker pushes every ready
\* message to it
PrefetchUnbounded == MaxPublish
\* basic_qos(prefetch_count=1): unacknowledged deliveries the broker lets a
\* consumer have
PrefetchCount == 1
\* Retry(status_forcelist=[...])
StatusForcelist == {429, 500, 502, 503, 504}
\* Retry(allowed_methods=[...])
AllowedMethods == {"HEAD", "GET", "OPTIONS", "POST"}

---------------------------------------------------------------------------
(* Inputs *)

Pipelines == {"reg", "doc"}
\* consumer instances of the pipeline (one process each, prefetch_count=1)
Workers == {"w1", "w2"}
\* the single consumer of the sequential specification
SeqWorker == "w1"

\* message ids on the wire; "u1" stands for a UUID-formatted string, "m1"
\* for a string uuid.UUID() rejects
MsgIds == {"u1", "m1"}
UUIDFormatted == {"u1"}

\* statuses the centralizer answers with, and what response.text holds
UpstreamStatuses == {200, 201, 503}
ResponseTexts == {"empty", "json", "text"}

\* statuses the centralizer answers GET validateCitizen with
LookupStatuses == {200, 204, 404, 503}

\* a bearer token as jwt.decode sees it. kind: "jwt" for a string that
\* decodes as a JWS, "garbage" for one that does not, "none" for no token;
\* signed: the signature verifies under the shared secret with the fixed
\* algorithm; exp: the exp claim against the clock ("none": absent);
\* client_id, scope, grant_type: the claims ("none": absent)
Token(kind, signed, exp, client_id, scope, grant_type) ==
    [kind |-> kind, signed |-> signed, exp |-> exp, client_id |-> client_id,
     scope |-> scope, grant_type |-> grant_type]

NoToken == Token("none", FALSE, "none", "none", "none", "none")
GarbageToken == Token("garbage", FALSE, "none", "none", "none", "none")
GoodToken == Token("jwt", TRUE, "future", "c1", "read", "client_credentials")

Tokens ==
    {GarbageToken} \cup
    {Token("jwt", s, e, c, sc, g) :
        s \in BOOLEAN, e \in {"none", "past", "future"}, c \in {"none", "c1"},
        sc \in {"none", "read"},
        g \in {"none", "", "client_credentials", "password"}}

\* an Authorization header value by its whitespace-separated parts: how
\* many there are, the first one, the second one (absent or empty header:
\* no parts)
Header(parts, scheme, token) ==
    [parts |-> parts, scheme |-> scheme, token |-> token]

NoHeader == Header(0, "", NoToken)
Schemes == {"Bearer", "bearer", "Basic"}

Headers ==
    {NoHeader} \cup {Header(1, s, NoToken) : s \in Schemes}
        \cup {Header(2, s, t) : s \in Schemes, t \in Tokens}
        \cup {Header(3, "Bearer", GoodToken)}

\* the path segment in the place of <int:idCitizen>
Segments == {"999", "0", "-1", "abc"}

\* a delivery body: kind says what the bytes are, messageId is the value of
\* the messageId key ("" when absent), complete says whether the other
\* required keys of the pipeline are all present and truthy
Body(kind, messageId, complete) ==
    [kind |-> kind, messageId |-> messageId, complete |-> complete]

NoBody == Body("none", "", FALSE)

Bodies ==
    {Body("object", id, TRUE) : id \in MsgIds}
        \cup {Body("object", "", TRUE), Body("object", "u1", FALSE),
              Body("array", "", FALSE), Body("invalid_json", "", FALSE),
              Body("not_utf8", "", FALSE)}

---------------------------------------------------------------------------
(* Values *)

\* a text with the status code it spells out (0: none)
Msg(text, code) == [text |-> text, code |-> code]

NoExc == [type |-> "", code |-> 0]
Exc(type, code) == [type |-> type, code |-> code]

NoResponse ==
    [success |-> FALSE, status_code |-> 0, message |-> Msg("", 0), data |-> "null"]

\* CitizenRegistrationTrace / DocumentAuthenticationTrace row as created
\* (null status code is 0; a null timestamp is FALSE)
NewTrace(id) ==
    [message_id |-> id, status |-> "PENDING", external_api_status_code |-> 0,
     external_api_response |-> "null", message |-> Msg("", 0),
     authenticated |-> FALSE, event_published_at |-> FALSE]

\* inbox: deliveries the broker has pushed to the consumer that wait for
\* on_message to return
IdleWorker ==
    [pc |-> "idle", cur |-> NoBody, hit |-> FALSE, trace |-> 0, left |-> 0,
     api_response |-> NoResponse, exc |-> NoExc, inbox |-> <<>>]

\* validate_citizen's result before the call
NoResult ==
    [exists |-> FALSE, citizen_data |-> "null", message |-> Msg("", 0),
     status_code |-> 0]

\* an HTTP response of the service: status and the JSON body (empty: no
\* body)
HttpResponse(status, empty, exists, error, message) ==
    [status |-> status, empty |-> empty, exists |-> exists, error |-> error,
     message |-> message]

NoHttpResponse == HttpResponse(0, TRUE, FALSE, "", "")

\* validate_token's result before the call
NoValidation ==
    [valid |-> FALSE, client_id |-> "none", scope |-> "", exp |-> "none",
     error |-> ""]

\* the lookup request: where it is in the server and the handler's locals
\* (token, validation: the decorator's token and validation_result;
\* client_id, scope: request.oauth_client_id, request.oauth_scope)
NoRequest ==
    [pc |-> "none", header |-> NoHeader, segment |-> "", token |-> NoToken,
     validation |-> NoValidation, client_id |-> "none", scope |-> "",
     left |-> 0, calls |-> 0, sent |-> 0, upstream |-> 0, result |-> NoResult,
     exc |-> NoExc, response |-> NoHttpResponse]

VARIABLES
    request,    \* the HTTP request to the lookup endpoint: position, inputs,
                \* handler locals, GET requests sent to the centralizer
                \* (sent), the status the centralizer answered (upstream)
    pipeline,   \* which consumer command runs
    queue,      \* broker: ready copies of each body
    worker,     \* per consumer: position in on_message and its locals
    rows,       \* the pipeline's trace table: per message id, its rows in
                \* insertion order
    events,     \* per message id: the events published to
                \* document.authentication.completed, in order
    gwCalls,    \* per message id: calls of the gateway operation
    httpSent,   \* per message id: HTTP write requests that left the client
    gwResult,   \* per message id: status the gateway operation returned
                \* (0: not called or still running, -1: it raised)
    done,       \* per message id: a delivery of the valid event was disposed of
    requeues    \* per message id: deliveries of the valid event nacked with
                \* requeue=True, counted up to MaxRequeues

pipelineVars == <<pipeline, queue, worker, rows, events, gwCalls, httpSent,
                  gwResult, done, requeues>>

vars == <<request, pipeline, queue, worker, rows, events, gwCalls, httpSent,
          gwResult, done, requeues>>

---------------------------------------------------------------------------
(* on_message: parsing and validation *)

\* json.loads(body.decode('utf-8'))
ParseResult(b) ==
    IF b.kind = "not_utf8" THEN "UnicodeDecodeError"
    ELSE IF b.kind = "invalid_json" THEN "JSONDecodeError"
    ELSE "parsed"

\* a validation that looks at the message id alone
AllRequiredIdOnly(b) == b.messageId # ""

\* all([message_id, ..., ...])
AllRequired(b) == b.messageId # "" /\ b.complete

\* process_message up to the call of the service
ProcessMessageEntry(b) ==
    IF b.kind # "object" THEN "AttributeError"
    ELSE IF ~AllRequired(b) THEN "return"
    ELSE "process"

\* except clauses that never requeue
NackRequeueNever(exc) == FALSE

\* the except clauses of on_message: requeue flag of basic_nack
NackRequeue(exc) == exc.type # "JSONDecodeError"

ValidEvent(b) == ParseResult(b) = "parsed" /\ ProcessMessageEntry(b) = "process"

---------------------------------------------------------------------------
(* Trace ledger *)

\* a lookup that never finds the row
ExistingNever(table, id) == 0

\* objects.filter(message_id=id).first(): the first row with the message
\* id (its index among the rows of that id), 0 for None
Existing(table, id) == IF Len(table[id]) > 0 THEN 1 ELSE 0

\* UUIDField.to_python on the lookup value; the document table's column is
\* a CharField
MessageIdAccepted(pipe, id) == pipe = "doc" \/ id \in UUIDFormatted

\* a message_id column without the unique constraint
UniqueViolationNever(table, id) == FALSE

\* unique=True on message_id
UniqueViolation(table, id) == Len(table[id]) > 0

\* CitizenRegistrationTrace.mark_as_sent
RegMarkAsSent(row, status_code, response_data) ==
    [row EXCEPT !.status = "SENT", !.external_api_status_code = status_code,
                !.external_api_response = response_data]

\* mark_as_error that records the text and leaves the status alone
RegMarkAsErrorKeepsStatus(row, error_message) ==
    [row EXCEPT !.message = error_message]

\* CitizenRegistrationTrace.mark_as_error
RegMarkAsError(row, error_message) ==
    [row EXCEPT !.status = "ERROR", !.message = error_message]

\* mark_as_authenticated that stamps the published timestamp as well
DocMarkAsAuthenticatedStamped(row, status_code, success, message) ==
    [row EXCEPT !.status = "SENT", !.authenticated = success,
                !.message = message, !.external_api_status_code = status_code,
                !.event_published_at = TRUE]

\* DocumentAuthenticationTrace.mark_as_authenticated
DocMarkAsAuthenticated(row, status_code, success, message) ==
    [row EXCEPT !.status = "SENT", !.authenticated = success,
                !.message = message, !.external_api_status_code = status_code]

\* DocumentAuthenticationTrace.mark_as_error
DocMarkAsError(row, error_message) ==
    [row EXCEPT !.status = "ERROR", !.authenticated = FALSE,
                !.message = error_message]

\* DocumentAuthenticationTrace.mark_event_published
MarkEventPublished(row) == [row EXCEPT !.event_published_at = TRUE]

MarkAsError(pipe, row, error_message) ==
    IF pipe = "reg" THEN RegMarkAsError(row, error_message)
    ELSE DocMarkAsError(row, error_message)

---------------------------------------------------------------------------
(* External gateway client *)

Method(pipe) == IF pipe = "reg" THEN "POST" ELSE "PUT"

\* Retry.is_retry: the status is retried for this method
IsRetry(method, status) == method \in AllowedMethods /\ status \in StatusForcelist

\* a transport that retries a failed read for every method
ReadRetryableAlways(method) == TRUE

\* Retry.increment on a read error: retried only for an allowed method
ReadRetryable(method) == method \in AllowedMethods

\* response.json() if response.text else None, in register_citizen
RegisterRaises(text) == text = "text"

\* what response.json() raises on a body that is no JSON: a subclass of
\* json.JSONDecodeError, or of ValueError only (requests before 2.27, or
\* with simplejson installed)
ResponseJsonErrors == {"JSONDecodeError", "ValueError"}

\* register_citizen taking 200 for a success as well
RegisterCitizenAny2xx(status, text) ==
    [success |-> status \in {200, 201},
     status_code |-> status,
     message |-> IF status \in {200, 201}
                 THEN Msg("Citizen registered successfully", 0)
                 ELSE Msg("Registration failed", status),
     data |-> IF text = "empty" THEN "null" ELSE "json"]

\* register_citizen's result for a response that came back
RegisterCitizen(status, text) ==
    [success |-> status = 201,
     status_code |-> status,
     message |-> IF status = 201 THEN Msg("Citizen registered successfully", 0)
                 ELSE Msg("Registration failed", status),
     data |-> IF text = "empty" THEN "null" ELSE "json"]

\* authenticate_document's result for a response that came back
AuthenticateDocument(status, text) ==
    [success |-> status = 200,
     status_code |-> status,
     message |-> IF status = 200 THEN Msg("Document authenticated successfully", 0)
                 ELSE Msg("Document authentication failed", status),
     data |-> IF text = "empty" THEN "null"
              ELSE IF text = "json" THEN "json" ELSE "raw_response"]

\* an error text that says nothing
ErrorTextBlank(exc) == Msg("", 0)

\* str(e) of the exception the service catches
ErrorText(exc) == Msg(exc.type, exc.code)

\* the outcome event built from a trace
EventData(row) ==
    [messageId |-> row.message_id, authenticated |-> row.authenticated,
     message |-> IF row.message.text # "" THEN row.message
                 ELSE IF row.authenticated THEN Msg("Authentication successful", 0)
                 ELSE Msg("Authentication failed", 0)]

---------------------------------------------------------------------------
(* State changes shared by the actions *)

Set(w, rec) == worker' = [worker EXCEPT ![w] = rec]

Goto(w, pc) == Set(w, [worker[w] EXCEPT !.pc = pc])

Raise(w, exc) == Set(w, [worker[w] EXCEPT !.pc = "nack", !.exc = exc])

Disposed(b) ==
    IF ValidEvent(b)
    THEN done' = [done EXCEPT ![b.messageId] = TRUE]
    ELSE UNCHANGED done

---------------------------------------------------------------------------
\* the queues the publishers can have filled
RECURSIVE Total(_, _)
Total(q, S) ==
    IF S = {} THEN 0
    ELSE LET b == CHOOSE x \in S : TRUE IN q[b] + Total(q, S \ {b})

\* the message ids of the valid events on a queue
QueuedIds(q) == {b.messageId : b \in {x \in Bodies : q[x] > 0 /\ ValidEvent(x)}}

\* One event is followed per behaviour, among copies of itself and bodies
\* that are no valid event: the rows, events and counters of two message
\* ids never meet, each being keyed by its message id.
Queues ==
    {q \in [Bodies -> 0..MaxPublish] :
        Total(q, Bodies) <= MaxPublish /\ Cardinality(QueuedIds(q)) <= 1}

Init ==
    /\ request = NoRequest
    /\ pipeline \in Pipelines
    /\ queue \in Queues
    /\ worker = [w \in Workers |-> IdleWorker]
    /\ rows = [id \in MsgIds |-> <<>>]
    /\ events = [id \in MsgIds |-> <<>>]
    /\ gwCalls = [id \in MsgIds |-> 0]
    /\ httpSent = [id \in MsgIds |-> 0]
    /\ gwResult = [id \in MsgIds |-> 0]
    /\ done = [id \in MsgIds |-> FALSE]
    /\ requeues = [id \in MsgIds |-> 0]

\* an on_message that returns without a disposition when process_message
\* returns early on a missing field
ParsedDropsReturn(b) ==
    LET p == ParseResult(b)
        e == ProcessMessageEntry(b)
    IN  IF p # "parsed"
        THEN [IdleWorker EXCEPT !.pc = "nack", !.cur = b, !.exc = Exc(p, 0)]
        ELSE IF e = "AttributeError"
        THEN [IdleWorker EXCEPT !.pc = "nack", !.cur = b, !.exc = Exc(e, 0)]
        ELSE IF e = "return" THEN IdleWorker
        ELSE [IdleWorker EXCEPT !.pc = "lookup", !.cur = b]

\* where on_message goes with a body: decode, json.loads, then
\* process_message up to the call of the service
Parsed(b) ==
    LET p == ParseResult(b)
        e == ProcessMessageEntry(b)
    IN  IF p # "parsed"
        THEN [IdleWorker EXCEPT !.pc = "nack", !.cur = b, !.exc = Exc(p, 0)]
        ELSE IF e = "AttributeError"
        THEN [IdleWorker EXCEPT !.pc = "nack", !.cur = b, !.exc = Exc(e, 0)]
        ELSE IF e = "return" THEN [IdleWorker EXCEPT !.pc = "ack", !.cur = b]
        ELSE [IdleWorker EXCEPT !.pc = "lookup", !.cur = b]

\* deliveries of the consumer the broker has no ack or nack for
Unacked(w) ==
    Len(worker[w].inbox) + IF worker[w].pc = "idle" THEN 0 ELSE 1

\* the broker pushes a ready message to a consumer that is below its
\* prefetch count; the blocking connection calls on_message at once when no
\* callback is running (and on_message runs up to its first access to the
\* ledger or the channel), else the delivery waits for the callback to
\* return
OnMessage(w, b) ==
    /\ queue[b] > 0
    /\ Unacked(w) < PrefetchCount
    /\ queue' = [queue EXCEPT ![b] = @ - 1]
    /\ IF worker[w].pc = "idle"
       THEN Set(w, Parsed(b))
       ELSE Set(w, [worker[w] EXCEPT !.inbox = Append(@, b)])
    /\ UNCHANGED <<request, pipeline, rows, events, gwCalls, httpSent, gwResult,
                   done, requeues>>

\* an idempotency check that stamps the trace it finds
LookupTouches(w) ==
    /\ worker[w].pc = "lookup"
    /\ LET id == worker[w].cur.messageId
           existing == Existing(rows, id)
       IN  IF ~MessageIdAccepted(pipeline, id)
           THEN Raise(w, Exc("ValidationError", 0))
           ELSE IF existing # 0
           THEN Set(w, [worker[w] EXCEPT !.pc = "stamp", !.hit = TRUE,
                                         !.trace = existing])
           ELSE Goto(w, "create")
    /\ UNCHANGED <<request, pipeline, queue, rows, events, gwCalls, httpSent,
                   gwResult, done, requeues>>

\* the idempotency check of the service
Lookup(w) ==
    /\ worker[w].pc = "lookup"
    /\ LET id == worker[w].cur.messageId
           existing == Existing(rows, id)
       IN  IF ~MessageIdAccepted(pipeline, id)
           THEN Raise(w, Exc("ValidationError", 0))
           ELSE IF existing # 0
           THEN Set(w, [worker[w] EXCEPT !.pc = "ack", !.hit = TRUE,
                                         !.trace = existing])
           ELSE Goto(w, "create")
    /\ UNCHANGED <<request, pipeline, queue, rows, events, gwCalls, httpSent,
                   gwResult, done, requeues>>

\* a service that goes to the gateway without creating the trace
CreatePendingSkipped(w) ==
    /\ worker[w].pc = "create"
    /\ Goto(w, "call")
    /\ UNCHANGED <<request, pipeline, queue, rows, events, gwCalls, httpSent,
                   gwResult, done, requeues>>

\* objects.create(message_id=..., status='PENDING')
CreatePending(w) ==
    /\ worker[w].pc = "create"
    /\ LET id == worker[w].cur.messageId
       IN  IF UniqueViolation(rows, id)
           THEN /\ Raise(w, Exc("IntegrityError", 0))
                /\ UNCHANGED rows
           ELSE /\ rows' = [rows EXCEPT ![id] = Append(@, NewTrace(id))]
                /\ Set(w, [worker[w] EXCEPT !.pc = "call",
                                              !.trace = Len(rows[id]) + 1])
    /\ UNCHANGED <<request, pipeline, queue, events, gwCalls, httpSent, gwResult, done, requeues>>

\* the trace instance the service holds
TraceOf(w) == rows[worker[w].cur.messageId][worker[w].trace]

\* the gateway operation raised: control enters the service's except block
Fail(w, exc) ==
    /\ Set(w, [worker[w] EXCEPT !.pc = "except", !.exc = exc])
    /\ gwResult' = [gwResult EXCEPT ![worker[w].cur.messageId] = -1]

\* a budget of one retry more
LeftOneMore(w) == IF worker[w].pc = "call" THEN RetryTotal + 1 ELSE worker[w].left

\* retries the transport has left: Retry(total=3) when the call starts
Left(w) == IF worker[w].pc = "call" THEN RetryTotal ELSE worker[w].left

\* the transport retries: one retry of the budget is used up
Retry(w) ==
    /\ Set(w, [worker[w] EXCEPT !.pc = "http", !.left = Left(w) - 1])
    /\ UNCHANGED gwResult

\* the response came back to register_citizen / authenticate_document
Respond(w, status, text) ==
    IF pipeline = "reg" /\ RegisterRaises(text)
    THEN \E type \in ResponseJsonErrors : Fail(w, Exc(type, 0))
    ELSE /\ Set(w, [worker[w] EXCEPT
                !.pc = "mark",
                !.api_response = IF pipeline = "reg"
                                 THEN RegisterCitizen(status, text)
                                 ELSE AuthenticateDocument(status, text)])
         /\ gwResult' = [gwResult EXCEPT ![worker[w].cur.messageId] = status]

\* register_citizen / authenticate_document: the call starts at "call" and
\* each step is one attempt of session.post / session.put under the mounted
\* Retry adapter; the centralizer answers, or the connection or the read fails
Http(w) ==
    /\ worker[w].pc \in {"call", "http"}
    /\ gwCalls' = IF worker[w].pc = "call"
                  THEN [gwCalls EXCEPT ![worker[w].cur.messageId] = @ + 1]
                  ELSE gwCalls
    /\ LET id == worker[w].cur.messageId
           method == Method(pipeline)
           left == Left(w)
       IN  \/ \* connection error: nothing was sent; retried for any method
              /\ UNCHANGED httpSent
              /\ IF left > 0 THEN Retry(w)
                 ELSE Fail(w, Exc("ConnectionError", 0))
           \/ \* the request was sent and the read failed or timed out
              /\ httpSent' = [httpSent EXCEPT ![id] = @ + 1]
              /\ IF ReadRetryable(method) /\ left > 0 THEN Retry(w)
                 ELSE Fail(w, Exc("ReadTimeout", 0))
           \/ \* the request was sent and a response came back
              /\ httpSent' = [httpSent EXCEPT ![id] = @ + 1]
              /\ \E status \in UpstreamStatuses, text \in ResponseTexts :
                    IF IsRetry(method, status)
                    THEN IF left > 0 THEN Retry(w)
                         ELSE Fail(w, Exc("RetryError", status))
                    ELSE Respond(w, status, text)
    /\ UNCHANGED <<request, pipeline, queue, rows, events, done, requeues>>

\* the service records the result the gateway operation returned
Mark(w) ==
    /\ worker[w].pc = "mark"
    /\ LET id == worker[w].cur.messageId
           t == worker[w].trace
           r == worker[w].api_response
       IN  IF pipeline = "reg"
           THEN /\ rows' = [rows EXCEPT ![id][t] =
                        IF r.success
                        THEN RegMarkAsSent(@, r.status_code, r.data)
                        ELSE RegMarkAsError(@, r.message)]
                /\ Goto(w, "ack")
           ELSE /\ rows' = [rows EXCEPT ![id][t] =
                        DocMarkAsAuthenticated(@, r.status_code,
                            r.success /\ r.status_code = 200, r.message)]
                /\ Goto(w, "publish")
    /\ UNCHANGED <<request, pipeline, queue, events, gwCalls, httpSent, gwResult, done, requeues>>

\* except Exception as e: trace.mark_as_error(str(e)); the registration
\* service re-raises at once, the document service first publishes
Except(w) ==
    /\ worker[w].pc = "except"
    /\ rows' = [rows EXCEPT ![worker[w].cur.messageId][worker[w].trace] =
                    MarkAsError(pipeline, @, ErrorText(worker[w].exc))]
    /\ Goto(w, IF pipeline = "reg" THEN "nack" ELSE "publish_error")
    /\ UNCHANGED <<request, pipeline, queue, events, gwCalls, httpSent, gwResult, done, requeues>>

\* _publish_result_event inside the try block: publish_event either sends
\* the event or raises
PublishResult(w) ==
    /\ worker[w].pc = "publish"
    /\ \/ /\ events' = [events EXCEPT ![worker[w].cur.messageId] =
                        Append(@, EventData(TraceOf(w)))]
          /\ Goto(w, "stamp")
       \/ /\ UNCHANGED events
          /\ Set(w, [worker[w] EXCEPT !.pc = "except",
                                      !.exc = Exc("AMQPError", 0)])
    /\ UNCHANGED <<request, pipeline, queue, rows, gwCalls, httpSent, gwResult, done, requeues>>

\* trace.mark_event_published() after the publish in the try block
StampPublished(w) ==
    /\ worker[w].pc = "stamp"
    /\ rows' = [rows EXCEPT ![worker[w].cur.messageId][worker[w].trace] = MarkEventPublished(@)]
    /\ Goto(w, "ack")
    /\ UNCHANGED <<request, pipeline, queue, events, gwCalls, httpSent, gwResult, done, requeues>>

\* _publish_result_event inside the except block: a failure is logged and
\* swallowed, then the original exception is re-raised
PublishError(w) ==
    /\ worker[w].pc = "publish_error"
    /\ \/ /\ events' = [events EXCEPT ![worker[w].cur.messageId] =
                        Append(@, EventData(TraceOf(w)))]
          /\ Goto(w, "stamp_error")
       \/ /\ UNCHANGED events
          /\ Goto(w, "nack")
    /\ UNCHANGED <<request, pipeline, queue, rows, gwCalls, httpSent, gwResult, done, requeues>>

\* trace.mark_event_published() after the publish in the except block
StampError(w) ==
    /\ worker[w].pc = "stamp_error"
    /\ rows' = [rows EXCEPT ![worker[w].cur.messageId][worker[w].trace] = MarkEventPublished(@)]
    /\ Goto(w, "nack")
    /\ UNCHANGED <<request, pipeline, queue, events, gwCalls, httpSent, gwResult, done, requeues>>

\* on_message returns: the connection calls it for the next delivery that
\* waits, if any
Returned(w) ==
    IF worker[w].inbox = <<>> THEN IdleWorker
    ELSE [Parsed(Head(worker[w].inbox)) EXCEPT !.inbox = Tail(worker[w].inbox)]

\* the broker puts unacknowledged deliveries back on the queue
RECURSIVE Requeued(_, _)
Requeued(q, deliveries) ==
    IF deliveries = <<>> THEN q
    ELSE Requeued([q EXCEPT ![Head(deliveries)] = @ + 1], Tail(deliveries))

\* ch.basic_ack
Ack(w) ==
    /\ worker[w].pc = "ack"
    /\ Disposed(worker[w].cur)
    /\ Set(w, Returned(w))
    /\ UNCHANGED <<request, pipeline, queue, rows, events, gwCalls, httpSent,
                   gwResult, requeues>>

\* ch.basic_nack, requeue per the except clause that caught the exception
Nack(w) ==
    /\ worker[w].pc = "nack"
    /\ Disposed(worker[w].cur)
    /\ queue' = IF NackRequeue(worker[w].exc)
                THEN Requeued(queue, <<worker[w].cur>>)
                ELSE queue
    /\ requeues' = IF NackRequeue(worker[w].exc) /\ ValidEvent(worker[w].cur)
                   THEN [requeues EXCEPT ![worker[w].cur.messageId] =
                            IF @ < MaxRequeues THEN @ + 1 ELSE @]
                   ELSE requeues
    /\ Set(w, Returned(w))
    /\ UNCHANGED <<request, pipeline, rows, events, gwCalls, httpSent, gwResult>>

\* the consumer process is killed with its delivery unacknowledged: the
\* broker requeues the delivery and a new process takes the consumer's place
Crash(w) ==
    /\ worker[w].pc # "idle"
    /\ queue' = Requeued(queue, <<worker[w].cur>> \o worker[w].inbox)
    /\ Set(w, IdleWorker)
    /\ UNCHANGED <<request, pipeline, rows, events, gwCalls, httpSent, gwResult,
                   done, requeues>>

\* the steps of one consumer
Consume(w) ==
    \/ \E b \in Bodies : OnMessage(w, b)
    \/ Lookup(w)
    \/ CreatePending(w)
    \/ Http(w)
    \/ Mark(w)
    \/ Except(w)
    \/ PublishResult(w)
    \/ StampPublished(w)
    \/ PublishError(w)
    \/ StampError(w)
    \/ Ack(w)
    \/ Nack(w)

Next ==
    \/ \E w \in Workers : Consume(w)
    \/ \E w \in Workers : Crash(w)

Spec == Init /\ [][Next]_vars

\* one consumer, never killed: deliveries are processed one after another
NextSeq ==
    \/ Consume(SeqWorker)

SpecSeq == Init /\ [][NextSeq]_vars

\* the consumer process keeps running: start_consuming's loop calls
\* on_message for what the broker delivers, and every blocking call of the
\* callback (ledger, HTTP with its timeout, publish) returns or raises
SpecSeqFair == SpecSeq /\ WF_vars(NextSeq)

\* the consumer after stop_consuming: channel cancelled, connection closed
StoppedWorker == [IdleWorker EXCEPT !.pc = "stopped"]

\* KeyboardInterrupt in the consumer process. Neither except clause of
\* on_message catches it, so it leaves the callback wherever it is and
\* reaches start_consuming's handler, which calls stop_consuming: the
\* channel stops and the connection is closed, and the broker requeues what
\* the consumer had not acknowledged
Interrupt(w) ==
    /\ worker[w].pc # "stopped"
    /\ queue' = IF worker[w].pc = "idle" THEN queue
                ELSE Requeued(queue, <<worker[w].cur>> \o worker[w].inbox)
    /\ Set(w, StoppedWorker)
    /\ UNCHANGED <<request, pipeline, rows, events, gwCalls, httpSent,
                   gwResult, done, requeues>>

\* one consumer that is interrupted at some point
NextShutdown ==
    \/ Consume(SeqWorker)
    \/ Interrupt(SeqWorker)

SpecShutdown == Init /\ [][NextShutdown]_vars

---------------------------------------------------------------------------
(* Token validator *)

\* an extraction that takes the second part whatever follows it
ExtractTokenAnyParts(h) ==
    IF h.parts < 2 \/ h.scheme \notin {"Bearer", "bearer"} THEN NoToken
    ELSE h.token

\* extract_token_from_header: the second of exactly two parts whose first
\* is "bearer" in any letter case, else None
ExtractTokenFromHeader(h) ==
    IF h.parts = 0 THEN NoToken
    ELSE IF h.parts # 2 \/ h.scheme \notin {"Bearer", "bearer"} THEN NoToken
    ELSE h.token

Denied(error) ==
    [valid |-> FALSE, client_id |-> "none", scope |-> "", exp |-> "none",
     error |-> error]

\* Python truth value of a claim: absent (None) and "" are false
Truthy(claim) == claim \notin {"none", ""}

\* a validator that does not look at the expiry
ValidateTokenNoExpiry(t) ==
    IF t.kind # "jwt" \/ ~t.signed \/ t.exp = "none" \/ t.client_id = "none"
    THEN Denied("Invalid token")
    ELSE [valid |-> TRUE, client_id |-> t.client_id,
          scope |-> IF t.scope = "none" THEN "" ELSE t.scope, exp |-> t.exp,
          error |-> ""]

\* validate_token: jwt.decode verifies the signature, then the required
\* claims (exp, client_id), then the expiry; the grant type is looked at
\* after decode returned
ValidateToken(t) ==
    IF t.kind = "none" THEN Denied("No token provided")
    ELSE IF t.kind = "garbage" THEN Denied("Invalid token: Not enough segments")
    ELSE IF ~t.signed
    THEN Denied("Invalid token: Signature verification failed")
    ELSE IF t.exp = "none"
    THEN Denied("Invalid token: Token is missing the exp claim")
    ELSE IF t.client_id = "none"
    THEN Denied("Invalid token: Token is missing the client_id claim")
    ELSE IF t.exp = "past" THEN Denied("Token has expired")
    ELSE IF Truthy(t.grant_type) /\ t.grant_type # "client_credentials"
    THEN Denied("Token is not a client_credentials grant type")
    ELSE [valid |-> TRUE, client_id |-> t.client_id,
          scope |-> IF t.scope = "none" THEN "" ELSE t.scope, exp |-> t.exp,
          error |-> ""]

---------------------------------------------------------------------------
(* Lookup endpoint *)

\* the int path converter: the segment matches [0-9]+
IntConverterMatches(segment) == segment \in {"999", "0"}

\* int(idCitizen)
IntValue(segment) ==
    CASE segment = "999" -> 999
      [] segment = "0" -> 0
      [] segment = "-1" -> 0 - 1
      [] OTHER -> 0

\* response.json() on the body of a 200 raises unless the body is JSON
ValidateCitizenRaises(status, text) == status = 200 /\ text # "json"

\* validate_citizen that takes every answer but 200 for a 204
ValidateCitizenLenient(status, text) ==
    IF status = 200
    THEN [exists |-> TRUE, citizen_data |-> "json",
          message |-> Msg("Citizen found successfully", 0), status_code |-> 200]
    ELSE [exists |-> FALSE, citizen_data |-> "null",
          message |-> Msg("Citizen does not exist in the system", 0),
          status_code |-> 204]

\* validate_citizen's result for a response that came back
ValidateCitizen(status, text) ==
    IF status = 200
    THEN [exists |-> TRUE, citizen_data |-> "json",
          message |-> Msg("Citizen found successfully", 0), status_code |-> 200]
    ELSE IF status = 204
    THEN [exists |-> FALSE, citizen_data |-> "null",
          message |-> Msg("Citizen does not exist in the system", 0),
          status_code |-> 204]
    ELSE [exists |-> FALSE, citizen_data |-> "null",
          message |-> Msg("Unexpected response from external API", status),
          status_code |-> status]

\* the server process: no consumer command runs, one request comes in
InitLookup ==
    /\ request \in {[NoRequest EXCEPT !.pc = "route", !.header = h,
                                      !.segment = seg] :
                        h \in Headers, seg \in Segments}
    /\ pipeline = "web"
    /\ queue = [b \in Bodies |-> 0]
    /\ worker = [w \in Workers |-> IdleWorker]
    /\ rows = [id \in MsgIds |-> <<>>]
    /\ events = [id \in MsgIds |-> <<>>]
    /\ gwCalls = [id \in MsgIds |-> 0]
    /\ httpSent = [id \in MsgIds |-> 0]
    /\ gwResult = [id \in MsgIds |-> 0]
    /\ done = [id \in MsgIds |-> FALSE]
    /\ requeues = [id \in MsgIds |-> 0]

Answer(response) ==
    request' = [request EXCEPT !.pc = "done", !.response = response]

\* the URL resolver: a segment the int converter does not match is no
\* route, and the server answers 404 without calling the view
Resolve ==
    /\ request.pc = "route"
    /\ IF IntConverterMatches(request.segment)
       THEN request' = [request EXCEPT !.pc = "auth"]
       ELSE Answer(HttpResponse(404, FALSE, FALSE, "Not Found", ""))
    /\ UNCHANGED pipelineVars

\* require_client_credentials
Authorize ==
    /\ request.pc = "auth"
    /\ LET token == ExtractTokenFromHeader(request.header)
           validation_result == ValidateToken(token)
       IN  IF token = NoToken
           THEN Answer(HttpResponse(401, FALSE, FALSE, "Unauthorized",
                                    "Valid Bearer token required"))
           ELSE IF ~validation_result.valid
           THEN request' = [request EXCEPT
                    !.pc = "done", !.token = token,
                    !.validation = validation_result,
                    !.response = HttpResponse(401, FALSE, FALSE, "Unauthorized",
                                              validation_result.error)]
           ELSE request' = [request EXCEPT
                    !.pc = "view", !.token = token,
                    !.validation = validation_result,
                    !.client_id = validation_result.client_id,
                    !.scope = validation_result.scope]
    /\ UNCHANGED pipelineVars

\* check_citizen_exists: the identifier must be a positive integer
CheckId ==
    /\ request.pc = "view"
    /\ IF IntValue(request.segment) <= 0
       THEN Answer(HttpResponse(400, FALSE, FALSE, "Invalid citizen ID", ""))
       ELSE request' = [request EXCEPT !.pc = "call"]
    /\ UNCHANGED pipelineVars

\* retries the transport has left for the GET
LeftGet == IF request.pc = "call" THEN RetryTotal ELSE request.left

\* validate_citizen: the call starts at "call" and each step is one attempt
\* of session.get under the mounted Retry adapter
HttpGet ==
    /\ request.pc \in {"call", "get"}
    /\ LET calls == IF request.pc = "call" THEN request.calls + 1
                    ELSE request.calls
           retry(sent) ==
                request' = [request EXCEPT !.pc = "get", !.calls = calls,
                                           !.sent = sent, !.left = LeftGet - 1]
           raise(sent, status, exc) ==
                request' = [request EXCEPT !.pc = "raised", !.calls = calls,
                                           !.sent = sent, !.upstream = status,
                                           !.exc = exc]
       IN  \/ \* connection error: nothing was sent
              IF LeftGet > 0 THEN retry(request.sent)
              ELSE raise(request.sent, 0, Exc("ConnectionError", 0))
           \/ \* the request was sent and the read failed or timed out
              IF ReadRetryable("GET") /\ LeftGet > 0
              THEN retry(request.sent + 1)
              ELSE raise(request.sent + 1, 0, Exc("ReadTimeout", 0))
           \/ \* the request was sent and a response came back
              \E status \in LookupStatuses, text \in ResponseTexts :
                 IF IsRetry("GET", status)
                 THEN IF LeftGet > 0 THEN retry(request.sent + 1)
                      ELSE raise(request.sent + 1, status,
                                 Exc("RetryError", status))
                 ELSE IF ValidateCitizenRaises(status, text)
                 THEN raise(request.sent + 1, status,
                            Exc("JSONDecodeError", 0))
                 ELSE request' = [request EXCEPT
                          !.pc = "result", !.calls = calls,
                          !.sent = request.sent + 1, !.upstream = status,
                          !.result = ValidateCitizen(status, text)]
    /\ UNCHANGED pipelineVars

\* check_citizen_exists: the response for the result, or for the exception
Reply ==
    /\ request.pc \in {"result", "raised"}
    /\ IF request.pc = "raised"
       THEN Answer(HttpResponse(500, FALSE, FALSE, "Internal server error", ""))
       ELSE IF request.result.exists
       THEN Answer(HttpResponse(200, FALSE, TRUE, "", ""))
       ELSE Answer(HttpResponse(204, TRUE, FALSE, "", ""))
    /\ UNCHANGED pipelineVars

NextLookup ==
    \/ Resolve
    \/ Authorize
    \/ CheckId
    \/ HttpGet
    \/ Reply

SpecLookup == InitLookup /\ [][NextLookup]_vars

---------------------------------------------------------------------------
(* Vocabulary of the properties *)

Terminal == {"SENT", "FAILED", "ERROR"}

\* the consumer holds a delivery of the valid event with this message id
Holds(w, id) ==
    /\ worker[w].pc # "idle"
    /\ ValidEvent(worker[w].cur)
    /\ worker[w].cur.messageId = id

\* the consumer is about to nack its delivery with requeue=True
Requeues(w) == worker[w].pc = "nack" /\ NackRequeue(worker[w].exc)

\* a body that is no UTF-8 JSON object
Malformed(b) == b.kind \in {"invalid_json", "not_utf8", "array"}

\* a JSON object that lacks a required field
LacksField(b) == b.kind = "object" /\ (b.messageId = "" \/ ~b.complete)

---------------------------------------------------------------------------
C2_OneRowOneCall ==
    \A id \in MsgIds : Len(rows[id]) <= 1 /\ gwCalls[id] <= 1

\* both consumers missed in the lookup; one created the row and called the
\* gateway, the other ran into the unique constraint
C2_Witness ==
    \E id \in MsgIds : \E w1, w2 \in Workers :
        /\ w1 # w2
        /\ Holds(w1, id) /\ Holds(w2, id)
        /\ worker[w1].exc.type = "IntegrityError"
        /\ worker[w2].pc \in {"http", "mark"}
        /\ gwCalls[id] = 1

(* C3: a consumer whose create-pending fails on the duplicate key treats  *)
(* it as a dedup hit: it holds the existing trace and its delivery is     *)
(* acknowledged, not nacked with requeue.                                 *)
C3_DuplicateKeyIsHit ==
    \A w \in Workers :
        worker[w].exc.type = "IntegrityError" =>
            /\ ~Requeues(w)
            /\ worker[w].pc = "ack"
            /\ worker[w].hit

(* C4: the transport sends at most one HTTP write request per message id, *)
(* retries included.                                                      *)
C4_OneHttpWrite == \A id \in MsgIds : httpSent[id] <= 1

(* C4, amended: the gateway write operation is called at most once per    *)
(* message id; that call sends at most 1 + RetryTotal HTTP requests in    *)
(* the registration pipeline and at most one in the document pipeline.    *)
C4_OneCallBoundedWrites ==
    \A id \in MsgIds :
        /\ gwCalls[id] <= 1
        /\ httpSent[id] <= RetryTotal + 1
        /\ pipeline = "doc" => httpSent[id] <= 1

\* one call of register_citizen that sent the POST 1 + RetryTotal times
C4_Witness ==
    \E id \in MsgIds :
        pipeline = "reg" /\ gwCalls[id] = 1 /\ httpSent[id] = RetryTotal + 1

(* C5: a delivery whose JSON object lacks a required field goes straight  *)
(* to basic_ack: no lookup, no trace, no gateway call, no requeue.        *)
C5_MissingFieldAcked ==
    \A w \in Workers :
        worker[w].pc # "idle" /\ LacksField(worker[w].cur) =>
            /\ worker[w].pc = "ack"
            /\ worker[w].trace = 0
            /\ ~worker[w].hit

\* a delivery that has the message id and lacks another field, at basic_ack
C5_Witness ==
    \E w \in Workers :
        /\ worker[w].pc = "ack"
        /\ LacksField(worker[w].cur)
        /\ worker[w].cur.messageId # ""

(* C6: a delivery whose body is no well-formed UTF-8 JSON object is       *)
(* disposed of without requeue and creates no trace.                      *)
C6_MalformedNotRequeued ==
    \A w \in Workers :
        worker[w].pc # "idle" /\ Malformed(worker[w].cur) =>
            /\ ~Requeues(w)
            /\ worker[w].trace = 0

(* C7: a trace that is terminal keeps its status, its authenticated flag  *)
(* and its message in every later step.                                   *)
C7_TerminalIsFinal ==
    [][\A id \in MsgIds : \A i \in 1..Len(rows[id]) :
          rows[id][i].status \in Terminal =>
              /\ rows'[id][i].status = rows[id][i].status
              /\ rows'[id][i].authenticated = rows[id][i].authenticated
              /\ rows'[id][i].message = rows[id][i].message]_vars

(* C8: at most one outcome event is ever published per message id, and    *)
(* exactly one is there once a publish of its trace has returned.         *)
C8_AtMostOneEvent ==
    \A id \in MsgIds :
        /\ Len(events[id]) <= 1
        /\ \A w \in Workers :
              Holds(w, id) /\ worker[w].pc \in {"stamp", "stamp_error"} =>
                  Len(events[id]) = 1
        /\ \A i \in 1..Len(rows[id]) :
              rows[id][i].event_published_at =>
                  rows[id][i].status \in Terminal /\ Len(events[id]) = 1

\* the event is out and stamped, and a later delivery of the message id is
\* a dedup hit
C8_Witness ==
    \E id \in MsgIds : \E w \in Workers :
        /\ pipeline = "doc"
        /\ Len(events[id]) = 1
        /\ Len(rows[id]) = 1
        /\ rows[id][1].event_published_at
        /\ Holds(w, id) /\ worker[w].hit

(* C9: in the registration pipeline a first-time delivery whose trace is  *)
(* terminal has published a result event when it reaches basic_ack.       *)
C9_RegPublishes ==
    pipeline = "reg" =>
        \A id \in MsgIds : \A w \in Workers :
            Holds(w, id) /\ worker[w].pc = "ack" /\ ~worker[w].hit =>
                Len(events[id]) >= 1

(* C9, amended: the registration pipeline publishes no result event; a    *)
(* first-time delivery reaches basic_ack with its trace terminal.         *)
C9_RegMarksAndNeverPublishes ==
    pipeline = "reg" =>
        \A id \in MsgIds :
            /\ events[id] = <<>>
            /\ \A w \in Workers :
                  Holds(w, id) /\ worker[w].pc = "ack" /\ ~worker[w].hit =>
                      /\ worker[w].trace # 0
                      /\ TraceOf(w).status \in {"SENT", "ERROR"}

\* a first-time registration delivery at basic_ack, its trace SENT
C9_Witness ==
    \E id \in MsgIds : \E w \in Workers :
        /\ pipeline = "reg"
        /\ Holds(w, id) /\ worker[w].pc = "ack" /\ ~worker[w].hit
        /\ TraceOf(w).status = "SENT"

(* C10: a registration trace is SENT only if register_citizen returned    *)
(* status 201; when the consumer that made the call disposes of its       *)
(* delivery the trace is SENT if the call returned 201, and ERROR with    *)
(* the status code in its error message if it returned any other status.  *)
C10_RegSentIff201 ==
    pipeline = "reg" =>
        \A id \in MsgIds :
            /\ \A i \in 1..Len(rows[id]) :
                  /\ rows[id][i].status = "SENT" => gwResult[id] = 201
                  /\ rows[id][i].status = "ERROR" /\ gwResult[id] > 0 =>
                        rows[id][i].message.code = gwResult[id]
            /\ \A w \in Workers :
                  /\ Holds(w, id) /\ worker[w].pc \in {"ack", "nack"}
                  /\ worker[w].trace # 0 /\ ~worker[w].hit /\ gwResult[id] > 0
                  => IF gwResult[id] = 201
                     THEN TraceOf(w).status = "SENT"
                     ELSE /\ TraceOf(w).status = "ERROR"
                          /\ TraceOf(w).message.code = gwResult[id]

\* register_citizen returned 200: the trace is ERROR and names the 200
C10_Witness ==
    \E id \in MsgIds : \E w \in Workers :
        /\ pipeline = "reg"
        /\ Holds(w, id) /\ worker[w].pc = "ack" /\ ~worker[w].hit
        /\ gwResult[id] = 200
        /\ TraceOf(w).status = "ERROR"
        /\ TraceOf(w).message.code = 200

(* C11: a document trace is SENT only if authenticate_document returned    *)
(* status 200; a call that returned another status leaves the trace ERROR  *)
(* or FAILED.                                                              *)
C11_DocSentOnly200 ==
    pipeline = "doc" =>
        \A id \in MsgIds : \A i \in 1..Len(rows[id]) :
            /\ rows[id][i].status = "SENT" => gwResult[id] = 200
            /\ rows[id][i].status \in Terminal /\ gwResult[id] > 0
               /\ gwResult[id] # 200 => rows[id][i].status \in {"ERROR", "FAILED"}

\* the consumer created the trace of its delivery and its gateway call
\* returned a response
CallReturned(w, id) ==
    /\ Holds(w, id)
    /\ ~worker[w].hit
    /\ worker[w].trace # 0
    /\ gwResult[id] > 0

(* C12: a consumer whose gateway call returned a response never negatively *)
(* acknowledges its delivery, whatever happens to the publish afterwards.  *)
C12_ReturnedCallAcked ==
    \A id \in MsgIds : \A w \in Workers :
        CallReturned(w, id) => worker[w].pc # "nack"

(* C12, amended: after the gateway call returned, the delivery goes to     *)
(* basic_ack, except in the document pipeline when the publish of the      *)
(* result event raises: then the trace is marked ERROR and the delivery is *)
(* nacked with requeue.                                                    *)
C12_ReturnedCallAckedUnlessPublishFails ==
    \A id \in MsgIds : \A w \in Workers :
        CallReturned(w, id) =>
            \/ worker[w].pc \in {"mark", "ack"}
            \/ pipeline = "doc" /\ worker[w].pc \in {"publish", "stamp"}
            \/ /\ pipeline = "doc"
               /\ worker[w].exc.type = "AMQPError"
               /\ worker[w].pc \in {"except", "publish_error", "stamp_error",
                                    "nack"}
               /\ worker[w].pc # "except" => TraceOf(w).status = "ERROR"
               /\ worker[w].pc = "nack" => Requeues(w)

\* the document call returned, the publish raised, and the delivery is
\* about to be nacked with requeue
C12_Witness ==
    \E id \in MsgIds : \E w \in Workers :
        /\ pipeline = "doc"
        /\ CallReturned(w, id)
        /\ gwResult[id] = 200
        /\ Requeues(w)
        /\ worker[w].exc.type = "AMQPError"

\* the requests.RequestException kinds the transport raises: no connection,
\* no answer in time, retries exhausted on a retryable status
TransportErrors == {"ConnectionError", "ReadTimeout", "RetryError"}

(* C13: when the gateway call raises a transport error, the trace the      *)
(* consumer created is marked ERROR with the text of the error before      *)
(* anything else happens, and the delivery ends in basic_nack with         *)
(* requeue.                                                                *)
C13_TransportErrorMarkedAndRequeued ==
    \A id \in MsgIds : \A w \in Workers :
        Holds(w, id) /\ worker[w].exc.type \in TransportErrors =>
            /\ gwResult[id] = -1
            /\ worker[w].pc \in {"except", "publish_error", "stamp_error",
                                 "nack"}
            /\ pipeline = "reg" => worker[w].pc \in {"except", "nack"}
            /\ worker[w].pc # "except" =>
                  /\ TraceOf(w).status = "ERROR"
                  /\ TraceOf(w).message.text = worker[w].exc.type
                  /\ TraceOf(w).message.code = worker[w].exc.code
            /\ worker[w].pc = "nack" => Requeues(w)

\* the retries ran out on 503: the trace is ERROR with the error text and
\* the delivery is about to be nacked with requeue
C13_Witness ==
    \E id \in MsgIds : \E w \in Workers :
        /\ Holds(w, id)
        /\ worker[w].exc = Exc("RetryError", 503)
        /\ Requeues(w)
        /\ TraceOf(w).status = "ERROR"
        /\ TraceOf(w).message = Msg("RetryError", 503)

(* C14: the redelivery of a message whose delivery was requeued for a      *)
(* transport error runs the pipeline again: it is never short-circuited as *)
(* a dedup hit on the trace that the failed attempt marked ERROR, so the   *)
(* gateway operation is attempted again.                                   *)
C14_RedeliveryCallsAgain ==
    \A id \in MsgIds : \A w \in Workers :
        Holds(w, id) /\ worker[w].hit =>
            ~ /\ TraceOf(w).status = "ERROR"
              /\ TraceOf(w).message.text \in TransportErrors

(* C15: a delivery is nacked with requeue only when its gateway call       *)
(* failed with a transport error.                                          *)
C15_RequeueOnlyOnTransportError ==
    \A w \in Workers :
        Requeues(w) => worker[w].exc.type \in TransportErrors

(* C16: a retryable status answered while retries remain is not the end of *)
(* the gateway call: the call goes on to the upstream's later answer, so   *)
(* no gateway call returns a retryable status and no trace records one as  *)
(* its outcome.                                                            *)
C16_TransientStatusNotFinal ==
    \A id \in MsgIds :
        /\ gwResult[id] \notin StatusForcelist
        /\ \A i \in 1..Len(rows[id]) :
              rows[id][i].external_api_status_code \notin StatusForcelist

(* C17: in each gateway operation the transport hands a response to the    *)
(* operation only if its status is outside the retryable set; a response   *)
(* with a retryable status is retried.                                     *)
C17_RetryableStatusRetried ==
    [][\A w \in Workers :
          worker[w].pc \in {"call", "http"} /\ worker'[w].pc = "mark" =>
              worker'[w].api_response.status_code \notin StatusForcelist]_vars

(* C18: one call of a gateway operation sends at most 3 HTTP requests.     *)
C18_AtMostThreeRequests == \A id \in MsgIds : httpSent[id] <= 3

(* C18, amended: one call of a gateway operation makes at most             *)
(* 1 + RetryTotal attempts, the initial one and RetryTotal retries, so it  *)
(* sends at most 1 + RetryTotal HTTP requests before it gives up; while it *)
(* runs, the requests sent never exceed the retries used plus one.         *)
C18_AtMostOnePlusRetryTotal ==
    \A id \in MsgIds :
        /\ httpSent[id] <= gwCalls[id] * (RetryTotal + 1)
        /\ \A w \in Workers :
              Holds(w, id) /\ worker[w].pc = "http" =>
                  /\ worker[w].left \in 0..(RetryTotal - 1)
                  /\ httpSent[id] <= RetryTotal - worker[w].left

\* the call gave up on a retryable status after the initial request and
\* RetryTotal retries
C18_Witness ==
    \E id \in MsgIds : \E w \in Workers :
        /\ Holds(w, id)
        /\ worker[w].pc = "except"
        /\ worker[w].exc.type = "RetryError"
        /\ gwCalls[id] = 1
        /\ httpSent[id] = RetryTotal + 1

C20_StatusDecidesResult ==
    [][\A w \in Workers :
          worker[w].pc \in {"call", "http"} =>
              /\ worker'[w].pc = "mark" =>
                    LET r == worker'[w].api_response
                    IN  /\ r.status_code = gwResult'[worker[w].cur.messageId]
                        /\ r.success <=>
                              r.status_code = IF pipeline = "reg" THEN 201
                                              ELSE 200
                        /\ ~r.success => r.message.code = r.status_code
              /\ worker'[w].pc = "except" =>
                    worker'[w].exc.type \in TransportErrors]_vars

\* the decorator extracted a token and validate_token has returned
Validated == request.token # NoToken

\* the token decodes, its signature verifies, it carries exp and client_id
\* and its exp is in the future
WellFormedUnexpired(t) ==
    /\ t.kind = "jwt"
    /\ t.signed
    /\ t.exp = "future"
    /\ t.client_id # "none"

(* C21: validate_token answers valid only for a token that decodes, whose  *)
(* signature verifies, that carries exp and client_id and is not expired;  *)
(* an expired token is told so; a well-formed unexpired client-credentials *)
(* token is accepted and its client id, scope and expiry are returned.     *)
C21_ValidOnlyIfWellFormed ==
    Validated =>
        LET t == request.token
            v == request.validation
        IN  /\ v.valid => WellFormedUnexpired(t)
            /\ ~v.valid => v.error # "" /\ v.client_id = "none"
            /\ t.kind = "jwt" /\ t.signed /\ t.exp = "past"
               /\ t.client_id # "none" => v.error = "Token has expired"
            /\ WellFormedUnexpired(t) /\ t.grant_type = "client_credentials" =>
                  /\ v.valid
                  /\ v.client_id = t.client_id
                  /\ v.scope = IF t.scope = "none" THEN "" ELSE t.scope
                  /\ v.exp = t.exp

\* a well-formed client-credentials token was accepted, its claims returned
C21_Witness ==
    /\ request.pc = "view"
    /\ request.token = GoodToken
    /\ request.validation.valid
    /\ request.validation.client_id = "c1"
    /\ request.validation.scope = "read"

(* C22: an otherwise valid token that carries a grant-type claim is        *)
(* accepted only if the claim equals client_credentials, whatever else the *)
(* value is; one without the claim is accepted.                            *)
C22_GrantTypeChecked ==
    Validated /\ WellFormedUnexpired(request.token) =>
        request.validation.valid <=>
            request.token.grant_type \in {"none", "client_credentials"}

\* the request was routed to the view and the decorator has acted
Gated ==
    /\ request.pc \notin {"none", "route", "auth"}
    /\ request.response.status # 404

(* C23: extract_token_from_header returns a token exactly when the header  *)
(* has two whitespace-separated parts and the first is the scheme Bearer   *)
(* (in any letter case, as the scheme name of an HTTP header is), and then *)
(* the token is the second part, unchanged; no header, one part, three     *)
(* parts or another scheme give no token and the decorator answers 401.    *)
C23_ExactlyBearerAndToken ==
    Gated =>
        LET h == request.header
        IN  /\ request.token # NoToken <=>
                  h.parts = 2 /\ h.scheme \in {"Bearer", "bearer"}
            /\ request.token # NoToken => request.token = h.token
            /\ request.token = NoToken =>
                  /\ request.response.status = 401
                  /\ request.response.message = "Valid Bearer token required"

\* "Bearer <token> <more>": three parts, no token, 401
C23_Witness ==
    /\ Gated
    /\ request.header = Header(3, "Bearer", GoodToken)
    /\ request.token = NoToken
    /\ request.response.status = 401

\* the request carries no usable credentials: no bearer token in the
\* header, or one that is malformed, badly signed, expired, short of a
\* required claim, or of another grant type
BadCredentials ==
    LET h == request.header
    IN  \/ h.parts # 2
        \/ h.scheme \notin {"Bearer", "bearer"}
        \/ ~WellFormedUnexpired(h.token)
        \/ h.token.grant_type \notin {"none", "client_credentials"}

(* C24: a routed request without usable credentials never reaches the      *)
(* handler body: it is answered 401 and no gateway call is made for it.    *)
C24_BadCredentialsStopAtGate ==
    IntConverterMatches(request.segment) /\ BadCredentials =>
        /\ request.pc \in {"route", "auth", "done"}
        /\ request.calls = 0
        /\ request.sent = 0
        /\ request.pc = "done" => request.response.status = 401

\* the request carries a token validate_token accepts
GoodCredentials ==
    /\ request.header.parts = 2
    /\ request.header.scheme \in {"Bearer", "bearer"}
    /\ ValidateToken(request.header.token).valid

\* the path segment is the decimal numeral of a positive integer
PositiveInteger(segment) == segment = "999"

(* C25: an authenticated request whose identifier is not a positive        *)
(* integer (zero, negative, not a number) is answered 400 and causes no    *)
(* gateway call.                                                           *)
C25_BadIdentifierGets400 ==
    GoodCredentials /\ ~PositiveInteger(request.segment) =>
        /\ request.calls = 0
        /\ request.pc = "done" => request.response.status = 400

(* C26: when the centralizer's answer to the existence check is 200 the    *)
(* endpoint answers 200 with a body, and when it is 204 the endpoint       *)
(* answers 204 with an empty body.                                         *)
C26_UpstreamMapsThrough ==
    request.pc = "done" =>
        /\ request.upstream = 200 =>
              request.response.status = 200 /\ ~request.response.empty
        /\ request.upstream = 204 =>
              request.response.status = 204 /\ request.response.empty

(* C27: an existence check that ends in anything but a 200 or a 204 from   *)
(* the centralizer, a transport error or another status, is answered 500;  *)
(* the endpoint answers 204 only for an upstream 204.                      *)
C27_FailureGets500 ==
    request.pc = "done" /\ request.calls > 0 =>
        /\ request.upstream \notin {200, 204} => request.response.status = 500
        /\ request.response.status = 204 => request.upstream = 204

(* C28: a consumer never has more than one unacknowledged delivery: while  *)
(* its callback holds a delivery the broker hands it no other, whatever is *)
(* ready on the queue.                                                     *)
C28_OneUnackedDelivery ==
    \A w \in Workers :
        /\ Unacked(w) <= 1
        /\ worker[w].pc # "idle" => worker[w].inbox = <<>>

\* a consumer holds its one delivery, past its gateway call, while another
\* message is ready on the queue
C28_Witness ==
    \E w \in Workers : \E b \in Bodies :
        /\ worker[w].pc = "mark"
        /\ Unacked(w) = 1
        /\ queue[b] > 0

(* C29: a consumer that is interrupted closes its channel and connection   *)
(* only when no delivery is in flight: the delivery it holds is first      *)
(* acked or nacked.                                                        *)
C29_ClosesAfterDisposition ==
    [][\A w \in Workers :
          worker[w].pc # "stopped" /\ worker'[w].pc = "stopped" =>
              worker[w].pc = "idle"]_vars

(* C30: a consumer is at its gateway call only after its own lookup missed *)
(* and its own create of the PENDING trace succeeded; no gateway call and  *)
(* no HTTP write is ever made for a message id that has no trace row.      *)
C30_CallAfterMissAndCreate ==
    \A id \in MsgIds :
        /\ gwCalls[id] > 0 \/ httpSent[id] > 0 => Len(rows[id]) >= 1
        /\ \A w \in Workers :
              Holds(w, id) /\ worker[w].pc \in {"call", "http", "mark"} =>
                  /\ ~worker[w].hit
                  /\ worker[w].trace \in 1..Len(rows[id])
                  /\ TraceOf(w).message_id = id
                  /\ TraceOf(w).status = "PENDING"

\* the write request is out and the trace of the message id is PENDING
C30_Witness ==
    \E id \in MsgIds : \E w \in Workers :
        /\ Holds(w, id)
        /\ worker[w].pc = "http"
        /\ gwCalls[id] = 1
        /\ httpSent[id] >= 1
        /\ Len(rows[id]) = 1
        /\ TraceOf(w).status = "PENDING"

\* no consumer holds the delivery whose service created the trace of the
\* message id: that consumer is gone or has disposed of its delivery
CreatorGone(id) ==
    \A w \in Workers : ~(Holds(w, id) /\ ~worker[w].hit /\ worker[w].trace # 0)

\* the status with which the pipeline's gateway operation succeeds
SuccessStatus == IF pipeline = "reg" THEN 201 ELSE 200

(* C31: after the gateway call succeeded, a redelivery that comes once the *)
(* consumer that made the call is gone (killed before its ack) makes no    *)
(* second call and finds the trace of the message id in a terminal status. *)
C31_RedeliveryFindsTerminal ==
    \A id \in MsgIds : \A w \in Workers :
        /\ gwResult[id] = SuccessStatus
        /\ CreatorGone(id)
        /\ Holds(w, id) /\ worker[w].hit
        => /\ gwCalls[id] = 1
           /\ TraceOf(w).status \in Terminal

\* the consumer runs the service call that holds trace i of the message id
\* as the instance objects.create returned to it (no dedup hit)
Creator(w, id, i) ==
    Holds(w, id) /\ ~worker[w].hit /\ worker[w].trace = i

(* C32: a trace row is written only by the service call that created it:  *)
(* a call comes to hold a row as its own only by appending it, and every   *)
(* step that changes an existing row is taken with that call holding it;   *)
(* a delivery that found the row (dedup hit) never changes it.             *)
C32_OnlyCreatorWrites ==
    [][\A id \in MsgIds :
        /\ \A i \in 1..Len(rows[id]) :
              rows'[id][i] # rows[id][i]
              => \E w \in Workers :
                    Creator(w, id, i) /\ worker'[w] # worker[w]
        /\ \A w \in Workers : \A i \in 1..Len(rows'[id]) :
              Creator(w, id, i)' /\ ~Creator(w, id, i)
              => Len(rows[id]) = i - 1 /\ Len(rows'[id]) = i]_vars

\* the creating call has written the terminal status while another
\* consumer holds a delivery that found the row
C32_Witness ==
    \E id \in MsgIds : \E w1, w2 \in Workers :
        /\ w1 # w2
        /\ Creator(w1, id, 1) /\ rows[id][1].status \in Terminal
        /\ Holds(w2, id) /\ worker[w2].hit /\ worker[w2].trace = 1

(* C33: a dedup hit changes nothing: the step that finds the row and the   *)
(* steps of the delivery after it leave the rows, the events, the gateway  *)
(* call counters and the requests sent as they were, and the delivery goes *)
(* to basic_ack and from there is acknowledged, not requeued.              *)
C33_HitChangesNothing ==
    [][\A w \in Workers :
        /\ worker'[w].hit /\ ~worker[w].hit
           => /\ worker'[w].pc = "ack" /\ worker'[w].exc = NoExc
              /\ UNCHANGED <<rows, events, gwCalls, httpSent, gwResult>>
        /\ worker[w].hit /\ worker'[w] # worker[w]
           => /\ worker[w].pc = "ack"
              /\ UNCHANGED <<rows, events, gwCalls, httpSent, gwResult>>
              /\ queue' = queue => done'[worker[w].cur.messageId]]_vars

\* a delivery found the row an earlier delivery left in ERROR after its one
\* gateway call, and waits for its ack
C33_Witness ==
    \E id \in MsgIds : \E w \in Workers :
        /\ Holds(w, id) /\ worker[w].hit /\ worker[w].pc = "ack"
        /\ TraceOf(w).status = "ERROR"
        /\ gwCalls[id] = 1

(* C34: once the service has recorded a response the gateway operation     *)
(* returned with a non-success status, the trace holds that status code in *)
(* external_api_status_code and the response body in its response field.   *)
C34_FailureCodeAndBodyKept ==
    \A id \in MsgIds : \A w \in Workers :
        /\ Creator(w, id, worker[w].trace) /\ worker[w].trace # 0
        /\ worker[w].pc \in {"ack", "publish", "stamp"}
        /\ worker[w].api_response # NoResponse
        /\ ~worker[w].api_response.success
        => /\ TraceOf(w).external_api_status_code = worker[w].api_response.status_code
           /\ TraceOf(w).external_api_response = worker[w].api_response.data

(* C35: the published timestamp of a trace is set only in the document     *)
(* pipeline, by the service call that holds the trace, right after a       *)
(* publish of the trace's outcome event returned (the event is on the      *)
(* exchange) and with the trace terminal; control reaches the stamp only   *)
(* through a publish that sent an event, so failed attempts leave the      *)
(* timestamp null; once set it stays, with the trace terminal.             *)
C35_StampOnlyAfterPublish ==
    [][\A id \in MsgIds :
        /\ \A i \in 1..Len(rows'[id]) :
              rows'[id][i].event_published_at
              => IF i <= Len(rows[id]) /\ rows[id][i].event_published_at
                 THEN rows'[id][i].status \in Terminal /\ events'[id] # <<>>
                 ELSE /\ pipeline = "doc"
                      /\ i <= Len(rows[id])
                      /\ rows[id][i].status \in Terminal
                      /\ rows'[id][i].status = rows[id][i].status
                      /\ events[id] # <<>>
                      /\ events[id][Len(events[id])] = EventData(rows[id][i])
                      /\ \E w \in Workers :
                            /\ Creator(w, id, i)
                            /\ worker[w].pc \in {"stamp", "stamp_error"}
        /\ \A i \in 1..Len(rows[id]) :
              rows[id][i].event_published_at => rows'[id][i].event_published_at
        /\ \A w \in Workers :
              /\ Holds(w, id)'
              /\ worker'[w].pc \in {"stamp", "stamp_error"}
              /\ worker[w].pc \notin {"stamp", "stamp_error"}
              => /\ worker[w].pc \in {"publish", "publish_error"}
                 /\ Len(events'[id]) = Len(events[id]) + 1]_vars

\* both publish attempts of a document trace failed: the delivery is on its
\* way to basic_nack, no event is out and the timestamp is null
C35_Witness ==
    \E id \in MsgIds : \E w \in Workers :
        /\ pipeline = "doc"
        /\ Creator(w, id, 1)
        /\ worker[w].pc = "nack" /\ worker[w].exc.type = "AMQPError"
        /\ events[id] = <<>>
        /\ rows[id][1].status = "ERROR"
        /\ ~rows[id][1].event_published_at

(* C36: in the registration pipeline every non-empty message id, UUID-     *)
(* formatted or not, is admitted: no delivery of a valid event is on its   *)
(* way to a nack because the ledger refused the id, and once a delivery of *)
(* the event has been disposed of there is exactly one trace keyed by the  *)
(* id, with at most one gateway call.                                     *)
C36_AnyMessageIdAccepted ==
    pipeline = "reg" =>
        \A id \in MsgIds :
            /\ \A w \in Workers :
                  Holds(w, id) => worker[w].exc.type # "ValidationError"
            /\ done[id] => /\ Len(rows[id]) = 1
                           /\ rows[id][1].message_id = id
                           /\ gwCalls[id] <= 1

(* C37: a delivery handed to on_message gets exactly one disposition as    *)
(* long as the consumer process lives: the callback is running once the    *)
(* delivery is taken, it ends only from basic_ack or basic_nack, the step  *)
(* at basic_ack or basic_nack ends it (never one after the other), and     *)
(* every callback that runs does end.                                     *)
C37_ExactlyOneDisposition ==
    /\ [][/\ \A b \in Bodies :
              queue'[b] < queue[b]
              => \E w \in Workers :
                    /\ worker[w].pc = "idle"
                    /\ worker'[w].pc # "idle" /\ worker'[w].cur = b
          /\ \A w \in Workers :
            /\ worker[w].pc # "idle" /\ worker'[w].pc = "idle"
               => worker[w].pc \in {"ack", "nack"}
            /\ worker[w].pc \notin {"idle", "ack", "nack"}
               => worker'[w].cur = worker[w].cur
            /\ worker[w].pc \in {"ack", "nack"} /\ worker'[w] # worker[w]
               => /\ worker'[w] = Returned(w)
                  /\ queue' = IF worker[w].pc = "nack" /\ NackRequeue(worker[w].exc)
                              THEN Requeued(queue, <<worker[w].cur>>)
                              ELSE queue]_vars
    /\ \A w \in Workers :
          worker[w].pc # "idle" ~> worker[w].pc = "idle"

\* a delivery whose processing failed at the gateway has been nacked and is
\* back on the queue, the consumer idle
C37_Witness ==
    \E id \in MsgIds : \E b \in Bodies :
        /\ ValidEvent(b) /\ b.messageId = id /\ queue[b] > 0
        /\ done[id]
        /\ worker[SeqWorker].pc = "idle"
        /\ gwResult[id] = -1
        /\ rows[id][1].status = "ERROR"

(* C38: every outcome event that was published carries the upstream       *)
(* result of its message id: authenticated is true exactly when the        *)
(* authenticateDocument call of the message id returned 200.               *)
C38_EventCarriesUpstreamResult ==
    \A id \in MsgIds : \A k \in 1..Len(events[id]) :
        events[id][k].authenticated <=> gwResult[id] = 200

\* nothing is left to happen: no message is on the queue and no consumer
\* holds a delivery
AtRest ==
    /\ \A b \in Bodies : queue[b] = 0
    /\ \A w \in Workers : worker[w].pc = "idle"

(* C39: no trace stays PENDING forever: when the queue is drained and      *)
(* every consumer is idle, so that no step is left that could change a     *)
(* row, every trace that was created has a terminal status, consumers      *)
(* having been killed and messages redelivered on the way or not.         *)
C39_NoPendingAtRest ==
    AtRest => \A id \in MsgIds : \A i \in 1..Len(rows[id]) :
                  rows[id][i].status \in Terminal

(* C40: for a message id the ledger lookup admits, a delivery is on its    *)
(* way to a nack with requeue only if its own lookup found no row (it then *)
(* created the row, or lost the insert to the call that did); a delivery   *)
(* that found the row goes to basic_ack. So the nacks with requeue of the  *)
(* message id never number more than the consumers: no endless loop.       *)
C40_BoundedRequeues ==
    \A id \in MsgIds :
        MessageIdAccepted(pipeline, id) =>
            /\ requeues[id] <= Cardinality(Workers)
            /\ \A w \in Workers :
                  /\ Holds(w, id) /\ worker[w].hit => worker[w].pc = "ack"
                  /\ Holds(w, id) /\ Requeues(w)
                     => /\ ~worker[w].hit
                        /\ \/ worker[w].trace # 0
                           \/ worker[w].exc.type = "IntegrityError"

\* both consumers have nacked a delivery of the event with requeue (the
\* creating call failed at the gateway, the other lost the insert), and a
\* redelivery has found the row and waits for its ack
C40_Witness ==
    \E id \in MsgIds : \E w \in Workers :
        /\ MessageIdAccepted(pipeline, id)
        /\ requeues[id] = Cardinality(Workers)
        /\ Len(rows[id]) = 1
        /\ Holds(w, id) /\ worker[w].hit /\ worker[w].pc = "ack"

====
